---------------------------- MODULE Spec2Model ----------------------------
(***************************************************************************)
(* Model of src/components/InteractivePlayground.tsx: the data generator,  *)
(* the curve sampler, the model-fit engine and the useModelData hook.      *)
(*                                                                         *)
(* JavaScript numbers are modelled as rounded fixed-point numbers: the     *)
(* integer v stands for v / Scale, every product and quotient is rounded   *)
(* to the nearest representable value (as an IEEE operation is, at a       *)
(* coarser grain), and NaN, +Infinity, -Infinity are three values outside  *)
(* the finite range.  Signed zeros are not distinguished.                  *)
(***************************************************************************)
EXTENDS Integers, Sequences, FiniteSets, TLC

VARIABLES
    complexity, noise, regType, regStrength, dataSeed,   \* useState cells
    trainingData, model, description, modelLine,         \* useMemo cells
    dataCreated,                                         \* the last render built a new TrainingSet
    gen, prevGen,                                        \* generateTrainingData calls
    lineCall,                                            \* getLineData call
    fitCall                                              \* calculateModelFunction call

vars == <<complexity, noise, regType, regStrength, dataSeed,
          trainingData, model, description, modelLine,
          dataCreated, gen, prevGen, lineCall, fitCall>>

playVars == <<complexity, noise, regType, regStrength, dataSeed,
              trainingData, model, description, modelLine,
              dataCreated>>

---------------------------------------------------------------------------
(* Numbers *)

Scale == 10 * 10 * 10

NaN == 0 - 2^30
PosInf == 2^30
NegInf == 1 - 2^30

IsFinite(a) == a # NaN /\ a # PosInf /\ a # NegInf

\* an integer-valued number
Num(k) == k * Scale

\* the decimal literal n/d
Lit(n, d) == (n * Scale) \div d

\* p/q rounded to the nearest integer, q # 0
Rnd(p, q) ==
    IF q > 0 THEN (p + (q \div 2)) \div q
    ELSE ((0 - p) + ((0 - q) \div 2)) \div (0 - q)

Sgn(a) == IF a > 0 THEN 1 ELSE IF a < 0 THEN 0 - 1 ELSE 0

SignedInf(s) == IF s < 0 THEN NegInf ELSE PosInf

\* -a
Neg(a) ==
    IF a = NaN THEN NaN
    ELSE IF a = PosInf THEN NegInf
    ELSE IF a = NegInf THEN PosInf
    ELSE 0 - a

\* a + b
Add(a, b) ==
    IF a = NaN \/ b = NaN THEN NaN
    ELSE IF ~IsFinite(a) THEN (IF ~IsFinite(b) /\ b # a THEN NaN ELSE a)
    ELSE IF ~IsFinite(b) THEN b
    ELSE a + b

\* a - b
Sub(a, b) == Add(a, Neg(b))

\* a * b
Mul(a, b) ==
    IF a = NaN \/ b = NaN THEN NaN
    ELSE IF ~IsFinite(a) \/ ~IsFinite(b)
         THEN (IF a = 0 \/ b = 0 THEN NaN
               ELSE SignedInf(Sgn(a) * Sgn(b)))
    ELSE Rnd(a * b, Scale)

\* a / b
Div(a, b) ==
    IF a = NaN \/ b = NaN THEN NaN
    ELSE IF ~IsFinite(a)
         THEN (IF ~IsFinite(b) THEN NaN
               ELSE SignedInf(Sgn(a) * (IF b < 0 THEN 0 - 1 ELSE 1)))
    ELSE IF ~IsFinite(b) THEN 0
    ELSE IF b = 0 THEN (IF a = 0 THEN NaN ELSE SignedInf(Sgn(a)))
    ELSE Rnd(a * Scale, b)

\* a < b, false when either is NaN
Lt(a, b) == a # NaN /\ b # NaN /\ a < b

\* Math.floor
MathFloor(a) == IF IsFinite(a) THEN (a \div Scale) * Scale ELSE a

\* Math.abs
MathAbs(a) ==
    IF a = NaN THEN NaN
    ELSE IF ~IsFinite(a) THEN PosInf
    ELSE IF a < 0 THEN 0 - a ELSE a

\* Math.sign
MathSign(a) == IF a = NaN THEN NaN ELSE Num(Sgn(a))

\* Math.max
MathMax(a, b) ==
    IF a = NaN \/ b = NaN THEN NaN ELSE IF a < b THEN b ELSE a

\* Math.sin(t * Math.PI / 2) for 0 <= t <= 2, by Bhaskara's rational
\* approximation 4u/(5-u), u = t(2-t): exact at t = 0, 1, 2, within 0.002
\* elsewhere.
SinArch(t) ==
    LET u == Rnd(t * (2 * Scale - t), Scale)
    IN  Rnd(4 * u * Scale, 5 * Scale - u)

\* Math.sin(t * Math.PI / 2): the angle is given in units of pi/2
SinHalfPi(t) ==
    IF ~IsFinite(t) THEN NaN
    ELSE LET r == t % (4 * Scale)
         IN  IF r <= 2 * Scale THEN SinArch(r)
             ELSE 0 - SinArch(r - 2 * Scale)

\* Math.sin(k) * 10000 for the integer k (radians), rounded to 1/Scale;
\* periodic continuation past the table keeps the operator total.
SinTable ==
    << 0, 8414710, 9092974, 1411200, -7568025, -9589243,
       -2794155, 6569866, 9893582, 4121185, -5440211, -9999902,
       -5365729, 4201670, 9906074, 6502878, -2879033, -9613975,
       -7509872, 1498772, 9129453, 8366556, -88513, -8462204,
       -9055784, -1323518, 7625585, 9563759, 2709058, -6636339,
       -9880316, -4040376, 5514267, 9999119, 5290827, -4281827,
       -9917789, -6435381, 2963686, 9637954, 7451132, -1586227,
       -9165215, -8317747, 177019, 8509035, 9017883, 1235731 >>

SinTimes10000(k) == SinTable[(k % Len(SinTable)) + 1]

---------------------------------------------------------------------------
(* Service functions *)

trueFunction(x) == SinHalfPi(x)

\* pseudoRandom with Math.sin(++currentSeed): the seed advanced before use
pseudoRandomPreIncrement(currentSeed) ==
    LET x == SinTimes10000(currentSeed + 1)
    IN  [value |-> Sub(x, MathFloor(x)), currentSeed |-> currentSeed + 1]

\* One call of the closure pseudoRandom: the sample and the seed it leaves.
pseudoRandom(currentSeed) ==
    LET x == SinTimes10000(currentSeed)
    IN  [value |-> Sub(x, MathFloor(x)), currentSeed |-> currentSeed + 1]

\* The frame of a running generateTrainingData call.
GenFrame(numPoints, noiseLevel, seed) ==
    [pc |-> "loop", numPoints |-> numPoints, noiseLevel |-> noiseLevel,
     seed |-> seed, i |-> 0, currentSeed |-> seed,
     samples |-> <<>>, data |-> <<>>]

\* the x of point i with the step 4 / numPoints instead of 4 / (numPoints - 1)
GridPointStepOverN(i, numPoints) ==
    Add(Num(0 - 2), Div(Mul(Num(4), Num(i)), Num(numPoints)))

\* const x = -2 + (4 * i) / (numPoints - 1)
GridPoint(i, numPoints) ==
    Add(Num(0 - 2), Div(Mul(Num(4), Num(i)), Sub(Num(numPoints), Num(1))))

\* The body of the for loop at index i with the generator at currentSeed:
\* the point pushed, the sample drawn and the seed left behind.
GenPoint(numPoints, noiseLevel, currentSeed, i) ==
    LET x == GridPoint(i, numPoints)
        r == pseudoRandom(currentSeed)
        nz == Mul(Mul(Sub(r.value, Lit(5, 10)), noiseLevel), Num(2))
        y == Add(trueFunction(x), nz)
    IN  [x |-> x, y |-> y, sample |-> r.value, currentSeed |-> r.currentSeed]

\* One iteration of the for loop of generateTrainingData.
GenLoopBody(g) ==
    LET p == GenPoint(g.numPoints, g.noiseLevel, g.currentSeed, g.i)
    IN  [g EXCEPT !.i = g.i + 1,
                  !.currentSeed = p.currentSeed,
                  !.samples = Append(g.samples, p.sample),
                  !.data = Append(g.data, [x |-> p.x, y |-> p.y])]

\* The array the loop leaves: iteration i pushes point i, and the i calls of
\* pseudoRandom before it, each a currentSeed++, have left seed + i.
generateTrainingData(numPoints, noiseLevel, seed) ==
    [k \in 1..numPoints |->
        LET p == GenPoint(numPoints, noiseLevel, seed + (k - 1), k - 1)
        IN  [x |-> p.x, y |-> p.y]]

\* A function value (x: number) => number: the code that runs and the
\* variables of calculateModelFunction's scope it closes over.
Closure(fn, m, b, cx, rs, nz) ==
    [fn |-> fn, m |-> m, b |-> b, complexity |-> cx, regStrength |-> rs,
     noise |-> nz]

trueFunctionRef == Closure("trueFunction", 0, 0, 0, 0, 0)

\* const wiggle = noise * 0.7 * Math.sin(x * Math.PI * complexity / 2)
Wiggle(f, x) ==
    Mul(Mul(f.noise, Lit(7, 10)), SinHalfPi(Mul(x, Num(f.complexity))))

\* the soft threshold without Math.max(0, ...)
SoftThresholdUnclamped(wiggle, rs) ==
    Mul(MathSign(wiggle), Sub(MathAbs(wiggle), Mul(rs, Lit(5, 100))))

\* Math.sign(wiggle) * Math.max(0, Math.abs(wiggle) - regStrength * 0.05)
SoftThreshold(wiggle, rs) ==
    Mul(MathSign(wiggle),
        MathMax(0, Sub(MathAbs(wiggle), Mul(rs, Lit(5, 100)))))

\* wiggle / (1 + regStrength * 0.5)
Shrink(wiggle, rs) == Div(wiggle, Add(Num(1), Mul(rs, Lit(5, 10))))

\* model(x) for the function value f
Apply(f, x) ==
    CASE f.fn = "trueFunction" -> trueFunction(x)
      [] f.fn = "linear" -> Add(Mul(f.m, x), f.b)
      [] f.fn = "baseOverfitModel" -> Add(trueFunction(x), Wiggle(f, x))
      [] f.fn = "l1" ->
            Add(trueFunction(x), SoftThreshold(Wiggle(f, x), f.regStrength))
      [] f.fn = "l2" ->
            Add(trueFunction(x), Shrink(Wiggle(f, x), f.regStrength))

getLineData(f, domain, steps) ==
    LET stepSize == Div(Sub(domain[2], domain[1]), Num(steps))
    IN  [k \in 1..(steps + 1) |->
            LET x == Add(domain[1], Mul(Num(k - 1), stepSize))
            IN  [x |-> x, y |-> Apply(f, x)]]

RegularizationType == {"None", "L1", "L2"}

UnderfitText == "Underfitting: The model is too simple (a straight line) and cannot capture the underlying curved trend in the data, resulting in high error on both training and new data."
L1Text == "L1 Regularization (Lasso) is applied. It penalizes the absolute size of coefficients. Notice how it can shrink the 'wiggles' (analogous to coefficients) to exactly zero, simplifying the model and performing feature selection."
L2Text == "L2 Regularization (Ridge) is applied. It penalizes the squared size of coefficients. It shrinks the 'wiggles' towards zero but rarely makes them exactly zero, preventing any single feature from dominating."
OverfitText == "Overfitting: The model is overly complex. It learns the noise in the training data, not just the signal. This model will perform poorly on new, unseen data because it has memorized the training set's quirks."
GoodFitText == "Good Fit: The model complexity is appropriate for the data. It captures the underlying trend without fitting the noise, achieving good generalization."
LowComplexityText == " With a low-complexity model, regularization has a smaller effect but still helps prevent overfitting."
SmoothsText == " The regularization penalty effectively smooths the overfitted curve, leading to better generalization on unseen data."

\* What one point adds to the four sums.
SumTerms(p) ==
    [sumX |-> p.x, sumY |-> p.y, sumXY |-> Mul(p.x, p.y),
     sumX2 |-> Mul(p.x, p.x)]

\* data.forEach(...): the four sums over points lo..hi.  The model's
\* addition is exact, so the sums are taken by halves.
RECURSIVE SumsOver(_, _, _)
SumsOver(data, lo, hi) ==
    IF hi < lo THEN [sumX |-> 0, sumY |-> 0, sumXY |-> 0, sumX2 |-> 0]
    ELSE IF lo = hi THEN SumTerms(data[lo])
    ELSE LET mid == (lo + hi) \div 2
             l == SumsOver(data, lo, mid)
             r == SumsOver(data, mid + 1, hi)
         IN  [sumX |-> Add(l.sumX, r.sumX), sumY |-> Add(l.sumY, r.sumY),
              sumXY |-> Add(l.sumXY, r.sumXY),
              sumX2 |-> Add(l.sumX2, r.sumX2)]

Sums(data, k) == SumsOver(data, 1, k)

\* the slope with the factor n of the numerator forgotten
SlopeWithoutN(n, s) ==
    Div(Sub(s.sumXY, Mul(s.sumX, s.sumY)),
        Sub(Mul(Num(n), s.sumX2), Mul(s.sumX, s.sumX)))

\* const m = (n * sumXY - sumX * sumY) / (n * sumX2 - sumX * sumX)
Slope(n, s) ==
    Div(Sub(Mul(Num(n), s.sumXY), Mul(s.sumX, s.sumY)),
        Sub(Mul(Num(n), s.sumX2), Mul(s.sumX, s.sumX)))

\* const b = (sumY - m * sumX) / n
Intercept(n, s, m) == Div(Sub(s.sumY, Mul(m, s.sumX)), Num(n))

\* The complexity <= 1 branch.
LinearFit(data, cx, rs, nz) ==
    LET n == Len(data)
        s == Sums(data, n)
        m == Slope(n, s)
        b == Intercept(n, s, m)
    IN  [model |-> Closure("linear", m, b, cx, rs, nz),
         description |-> UnderfitText]

\* The switch on regType: the model and the description it assigns.
SwitchRegType(cx, rt, rs, nz) ==
    CASE rt = "L1" ->
            [model |-> Closure("l1", 0, 0, cx, rs, nz),
             description |-> IF rs = 0 THEN OverfitText ELSE L1Text]
      [] rt = "L2" ->
            [model |-> Closure("l2", 0, 0, cx, rs, nz),
             description |-> IF rs = 0 THEN OverfitText ELSE L2Text]
      [] OTHER ->
            [model |-> Closure("baseOverfitModel", 0, 0, cx, rs, nz),
             description |-> IF cx > 5 THEN OverfitText ELSE GoodFitText]

\* the supplement without the regStrength > 0 test
SupplementAnyStrength(desc, cx, rt, rs) ==
    IF rt # "None"
    THEN (IF cx <= 5 THEN desc \o LowComplexityText ELSE desc \o SmoothsText)
    ELSE desc

\* if (regStrength > 0 && regType !== RegularizationType.None) description += ...
Supplement(desc, cx, rt, rs) ==
    IF Lt(0, rs) /\ rt # "None"
    THEN (IF cx <= 5 THEN desc \o LowComplexityText ELSE desc \o SmoothsText)
    ELSE desc

calculateModelFunction(data, cx, rt, rs, nz) ==
    IF cx <= 1 THEN LinearFit(data, cx, rs, nz)
    ELSE LET r == SwitchRegType(cx, rt, rs, nz)
         IN  [model |-> r.model,
              description |-> Supplement(r.description, cx, rt, rs)]

---------------------------------------------------------------------------
(* useModelData: the state cells and the memoised derived values *)

NumPoints == 30
LineSteps == 100
MinComplexity == 1
MaxComplexity == 20
MaxRegStrength == 10

ChartDomain == <<Num(0 - 2), Num(2)>>

\* Values of the range inputs that the model explores.
Complexities == {MinComplexity, 2, 5, 6, 10, MaxComplexity}
NoiseLevels == {0, Lit(5, 100), Lit(5, 10), Num(1)}
RegStrengths == {0, Lit(1, 10), Num(1), Num(5), Num(MaxRegStrength)}

\* Number of "Regenerate Data" clicks followed.
MaxSeed == 3

Cells == [complexity |-> complexity, noise |-> noise, regType |-> regType,
          regStrength |-> regStrength, dataSeed |-> dataSeed]

\* dependency lists with one entry too many / one missing
TrainingDataDepsWithComplexity(p) == <<p.noise, p.dataSeed, p.complexity>>
ModelDepsWithoutStrength(p) == <<p.complexity, p.regType, p.noise>>

\* dependency lists of the useMemo calls
TrainingDataDeps(p) == <<p.noise, p.dataSeed>>
ModelDeps(p) == <<p.complexity, p.regType, p.regStrength, p.noise>>

\* A render with the state cells p: every useMemo whose dependencies
\* changed since the previous render runs its factory again.
Render(p) ==
    LET newData == TrainingDataDeps(p) # TrainingDataDeps(Cells)
        td == IF newData
              THEN generateTrainingData(NumPoints, p.noise, p.dataSeed)
              ELSE trainingData
        newModel == newData \/ ModelDeps(p) # ModelDeps(Cells)
        fit == calculateModelFunction(td, p.complexity, p.regType,
                                      p.regStrength, p.noise)
    IN  /\ complexity' = p.complexity
        /\ noise' = p.noise
        /\ regType' = p.regType
        /\ regStrength' = p.regStrength
        /\ dataSeed' = p.dataSeed
        /\ trainingData' = td
        /\ dataCreated' = newData
        /\ model' = IF newModel THEN fit.model ELSE model
        /\ description' = IF newModel THEN fit.description ELSE description
        /\ modelLine' = IF newModel
                        THEN getLineData(fit.model, ChartDomain, LineSteps)
                        ELSE modelLine
        /\ UNCHANGED <<gen, prevGen, lineCall, fitCall>>

IdleGen == [pc |-> "idle", numPoints |-> 0, noiseLevel |-> 0, seed |-> 0,
            i |-> 0, currentSeed |-> 0, samples |-> <<>>, data |-> <<>>]
IdleLine == [pc |-> "idle", model |-> trueFunctionRef, domain |-> <<0, 0>>,
             steps |-> 0, result |-> <<>>]
IdleFit == [pc |-> "idle", source |-> "none", numPoints |-> 0, data |-> <<>>,
            complexity |-> 0,
            regType |-> "None", regStrength |-> 0, noise |-> 0,
            model |-> trueFunctionRef, description |-> ""]

\* The first render of useModelData.
Init ==
    /\ complexity = 10
    /\ noise = Lit(5, 10)
    /\ regType = "None"
    /\ regStrength = 0
    /\ dataSeed = 1
    /\ trainingData = generateTrainingData(NumPoints, noise, dataSeed)
    /\ dataCreated = TRUE
    /\ LET fit == calculateModelFunction(trainingData, complexity, regType,
                                         regStrength, noise)
       IN  /\ model = fit.model
           /\ description = fit.description
           /\ modelLine = getLineData(fit.model, ChartDomain, LineSteps)
    /\ gen = IdleGen
    /\ prevGen = IdleGen
    /\ lineCall = IdleLine
    /\ fitCall = IdleFit

\* The service functions called with no playground mounted.
InitCalls ==
    /\ complexity = 10
    /\ noise = Lit(5, 10)
    /\ regType = "None"
    /\ regStrength = 0
    /\ dataSeed = 1
    /\ trainingData = <<>>
    /\ dataCreated = FALSE
    /\ model = trueFunctionRef
    /\ description = ""
    /\ modelLine = <<>>
    /\ gen = IdleGen
    /\ prevGen = IdleGen
    /\ lineCall = IdleLine
    /\ fitCall = IdleFit

\* onChange of the complexity slider
SetComplexity(v) ==
    /\ v # complexity
    /\ Render([Cells EXCEPT !.complexity = v])

\* onChange of the noise slider
SetNoise(v) ==
    /\ v # noise
    /\ Render([Cells EXCEPT !.noise = v])

\* onClick of a regularization type button
SetRegType(t) ==
    /\ t # regType
    /\ Render([Cells EXCEPT !.regType = t])

\* onChange of the strength slider, disabled while regType is None
SetRegStrength(v) ==
    /\ regType # "None"
    /\ v # regStrength
    /\ Render([Cells EXCEPT !.regStrength = v])

\* onClick of "Regenerate Data": setDataSeed(s => s + 1)
RegenerateData ==
    /\ dataSeed < MaxSeed
    /\ Render([Cells EXCEPT !.dataSeed = dataSeed + 1])

Next ==
    \/ \E v \in Complexities : SetComplexity(v)
    \/ \E v \in NoiseLevels : SetNoise(v)
    \/ \E t \in RegularizationType : SetRegType(t)
    \/ \E v \in RegStrengths : SetRegStrength(v)
    \/ RegenerateData

Spec == Init /\ [][Next]_vars

---------------------------------------------------------------------------
(* generateTrainingData, one loop iteration at a time, and the call before *)

\* Arguments of the calls explored.
MaxPoints == 4
MaxGenSeed == 3

GenBegin(numPoints, noiseLevel, seed) ==
    /\ gen.pc \in {"idle", "done"}
    /\ prevGen' = IF gen.pc = "done" THEN gen ELSE prevGen
    /\ gen' = GenFrame(numPoints, noiseLevel, seed)
    /\ UNCHANGED <<playVars, lineCall, fitCall>>

GenIter ==
    /\ gen.pc = "loop"
    /\ gen.i < gen.numPoints
    /\ gen' = GenLoopBody(gen)
    /\ UNCHANGED <<playVars, prevGen, lineCall, fitCall>>

GenReturn ==
    /\ gen.pc = "loop"
    /\ ~(gen.i < gen.numPoints)
    /\ gen' = [gen EXCEPT !.pc = "done"]
    /\ UNCHANGED <<playVars, prevGen, lineCall, fitCall>>

NextGen ==
    \/ \E n \in 1..MaxPoints, nl \in NoiseLevels, s \in 0..MaxGenSeed :
          GenBegin(n, nl, s)
    \/ GenIter
    \/ GenReturn

SpecGen == InitCalls /\ [][NextGen]_vars

---------------------------------------------------------------------------
(* getLineData *)

\* Step counts and domain ends of the calls explored: on these the rounding
\* of the model and of IEEE doubles agree on which sums come out exact.
StepCounts == {1, 2, 4, 5, 8, 10, 20, 25, 40, 49, 50, LineSteps}

LineModels ==
    {trueFunctionRef,
     Closure("linear", Lit(5, 10), Num(1), 1, 0, 0),
     Closure("l1", 0, 0, 10, Num(1), Lit(5, 10))}

LineEnds == {Num(0 - 2), 0, Num(2)}

LineCall(f, lo, hi, steps) ==
    /\ lineCall.pc = "idle"
    /\ lo < hi
    /\ lineCall' = [pc |-> "done", model |-> f, domain |-> <<lo, hi>>,
                    steps |-> steps,
                    result |-> getLineData(f, <<lo, hi>>, steps)]
    /\ UNCHANGED <<playVars, gen, prevGen, fitCall>>

\* the caller drops the line
LineDrop ==
    /\ lineCall.pc = "done"
    /\ lineCall' = IdleLine
    /\ UNCHANGED <<playVars, gen, prevGen, fitCall>>

NextLine ==
    \/ \E f \in LineModels, lo \in LineEnds, hi \in LineEnds,
          steps \in StepCounts : LineCall(f, lo, hi, steps)
    \/ LineDrop

SpecLine == InitCalls /\ [][NextLine]_vars

---------------------------------------------------------------------------
(* calculateModelFunction on training sets of any shape *)

FitComplexities == {MinComplexity, 2, 6}

MaxCoord == 2
MaxFitPoints == 2

\* Training sets whose points all have the same x.
SameXData ==
    {[k \in 1..n |-> [x |-> Num(x), y |-> Num(ys[k])]] :
        n \in 1..MaxFitPoints,
        x \in 0..MaxCoord,
        ys \in [1..MaxFitPoints -> 0..MaxCoord]}

\* Training sets with two distinct x.
SpreadData ==
    {<<[x |-> Num(0), y |-> Num(y1)], [x |-> Num(x2), y |-> Num(y2)]>> :
        y1 \in 0..MaxCoord, x2 \in 1..MaxCoord, y2 \in 0..MaxCoord}

FitRecord(source, numPoints, data, cx, rt, rs, nz) ==
    LET fit == calculateModelFunction(data, cx, rt, rs, nz)
    IN  [pc |-> "done", source |-> source, numPoints |-> numPoints,
         data |-> data, complexity |-> cx,
         regType |-> rt, regStrength |-> rs, noise |-> nz,
         model |-> fit.model, description |-> fit.description]

\* fitModel(generateTrainingSet(numPoints, noiseLevel, seed), ...)
FitGenerated(numPoints, seed, cx, rt, rs, nz) ==
    /\ fitCall.pc = "idle"
    /\ fitCall' = FitRecord("generated", numPoints,
                            generateTrainingData(numPoints, nz, seed),
                            cx, rt, rs, nz)
    /\ UNCHANGED <<playVars, gen, prevGen, lineCall>>

\* fitModel on a training set handed in by the caller
FitGiven(data, cx, rt, rs, nz) ==
    /\ fitCall.pc = "idle"
    /\ fitCall' = FitRecord("given", Len(data), data, cx, rt, rs, nz)
    /\ UNCHANGED <<playVars, gen, prevGen, lineCall>>

\* the caller drops the fitted model
FitDrop ==
    /\ fitCall.pc = "done"
    /\ fitCall' = IdleFit
    /\ UNCHANGED <<playVars, gen, prevGen, lineCall>>

NextFit ==
    \/ \E data \in SpreadData \cup SameXData, cx \in FitComplexities,
          rt \in RegularizationType, rs \in {0, Num(1)}, nz \in {Lit(5, 10), 0} :
          FitGiven(data, cx, rt, rs, nz)
    \/ \E n \in 1..MaxPoints, s \in 0..MaxGenSeed, cx \in FitComplexities,
          rt \in RegularizationType, rs \in {0, Num(1)}, nz \in NoiseLevels :
          FitGenerated(n, s, cx, rt, rs, nz)
    \/ FitDrop

SpecFit == InitCalls /\ [][NextFit]_vars

---------------------------------------------------------------------------
(* Properties of the playground (Spec) *)

Abs(v) == IF v < 0 THEN 0 - v ELSE v

BaseTexts == {L1Text, L2Text, OverfitText, GoodFitText}

\* C2: for complexity > 1 the description is a base text followed by exactly
\* one supplementary sentence if and only if regStrength > 0 and regKind is
\* l1 or l2 (the low-complexity sentence for complexity <= 5, the "smooths"
\* sentence above 5); with regKind = none it is the overfitting text above 5
\* and the good-fit text otherwise, nothing appended, whatever regStrength is.
C2_OneSupplement ==
    complexity > 1 =>
        LET regularized == regStrength > 0 /\ regType \in {"L1", "L2"}
        IN  /\ (regularized /\ complexity <= 5) =>
                  description \in {t \o LowComplexityText : t \in BaseTexts}
            /\ (regularized /\ complexity > 5) =>
                  description \in {t \o SmoothsText : t \in BaseTexts}
            /\ ~regularized => description \in BaseTexts
            /\ regType = "None" =>
                  description = IF complexity > 5 THEN OverfitText
                                ELSE GoodFitText

C2_Witness ==
    /\ complexity > 1 /\ complexity <= 5
    /\ regType = "L2" /\ regStrength > 0
    /\ description = L2Text \o LowComplexityText

\* Residual y - (m*x + b) of training point k under the fitted line.
Residual(k) ==
    trainingData[k].y - Rnd(model.m * trainingData[k].x, Scale) - model.b

\* Sum of the terms t[lo..hi], taken by halves.
RECURSIVE SumOf(_, _, _)
SumOf(t, lo, hi) ==
    IF hi < lo THEN 0
    ELSE IF lo = hi THEN t[lo]
    ELSE SumOf(t, lo, (lo + hi) \div 2) + SumOf(t, (lo + hi) \div 2 + 1, hi)

SumResiduals(n) == SumOf([k \in 1..n |-> Residual(k)], 1, n)

SumXResiduals(n) ==
    SumOf([k \in 1..n |-> trainingData[k].x * Residual(k)], 1, n)

\* C3: for complexity <= 1, whatever regKind, regStrength and noise are, the
\* description is the underfitting text alone and the fitted function is the
\* least-squares line: its sampled values have second difference zero and
\* its residuals over the training set satisfy the two normal equations
\* (sum of residuals = 0, sum of x * residual = 0), up to a rounding
\* allowance of 2/Scale per point.
C3_UnderfitLine ==
    complexity <= 1 =>
        /\ description = UnderfitText
        /\ \A k \in 1..(Len(modelLine) - 2) :
              Abs(modelLine[k + 2].y - 2 * modelLine[k + 1].y + modelLine[k].y)
                 <= 2
        /\ \A k \in 1..Len(modelLine) :
              modelLine[k].y = Rnd(model.m * modelLine[k].x, Scale) + model.b
        /\ Abs(SumResiduals(Len(trainingData)))
              <= 2 * Len(trainingData)
        /\ Abs(SumXResiduals(Len(trainingData)))
              <= 2 * Len(trainingData) * 2 * Scale

C3_Witness ==
    /\ complexity <= 1
    /\ regType = "L1" /\ regStrength > 0 /\ noise > 0
    /\ model.m # 0 /\ model.b # 0

\* noiseLevel * 0.7 * sin(x * pi * complexity / 2) for the current cells
WiggleAt(x) ==
    Rnd(Rnd(noise * 7 * (Scale \div 10), Scale)
           * SinHalfPi(Rnd(x * complexity * Scale, Scale)), Scale)

\* regStrength * 0.05
Threshold == Rnd(regStrength * 5 * (Scale \div 100), Scale)

\* C7: with regKind = l1 and complexity > 1, at every sampled x the fitted
\* value is the ground truth where regStrength*0.05 >= |wiggle(x)|, and the
\* ground truth plus the wiggle with its sign kept and its magnitude reduced
\* by regStrength*0.05 elsewhere.
C7_SoftThreshold ==
    (regType = "L1" /\ complexity > 1) =>
        \A k \in 1..Len(modelLine) :
            LET x == modelLine[k].x
                w == WiggleAt(x)
            IN  IF Threshold >= Abs(w)
                THEN modelLine[k].y = trueFunction(x)
                ELSE modelLine[k].y
                        = trueFunction(x) + Sgn(w) * (Abs(w) - Threshold)

C7_Witness ==
    /\ regType = "L1" /\ complexity > 1 /\ Threshold > 0
    /\ \E k \in 1..Len(modelLine) :
          /\ WiggleAt(modelLine[k].x) # 0
          /\ Threshold >= Abs(WiggleAt(modelLine[k].x))
          /\ modelLine[k].y = trueFunction(modelLine[k].x)
    /\ \E k \in 1..Len(modelLine) :
          /\ Threshold < Abs(WiggleAt(modelLine[k].x))
          /\ modelLine[k].y # trueFunction(modelLine[k].x)

\* C8: after any sequence of control actions the derived values are those of
\* the current cells: trainingData is generateTrainingData(30, noise,
\* dataSeed), and model, description and modelLine are what
\* calculateModelFunction and getLineData give for the current trainingData,
\* complexity, regType, regStrength and noise.
C8_NeverStale ==
    /\ trainingData = generateTrainingData(NumPoints, noise, dataSeed)
    /\ LET fit == calculateModelFunction(trainingData, complexity, regType,
                                         regStrength, noise)
       IN  /\ model = fit.model
           /\ description = fit.description
           /\ modelLine = getLineData(fit.model, ChartDomain, LineSteps)

C8_Witness ==
    /\ dataSeed > 1 /\ noise # Lit(5, 10) /\ complexity # 10
    /\ regType = "L2" /\ regStrength > 0
    /\ ~dataCreated

\* C9: a step that changes dataSeed (regenerateData) adds exactly 1 to it
\* and leaves complexity, noise, regType and regStrength alone; a step that
\* changes complexity, regType or regStrength leaves dataSeed and the
\* TrainingSet alone and builds no new TrainingSet; a new TrainingSet is
\* built only by a step that changes dataSeed or noise.
C9_Frame ==
    [][/\ dataSeed' # dataSeed =>
            /\ dataSeed' = dataSeed + 1
            /\ UNCHANGED <<complexity, noise, regType, regStrength>>
       /\ (complexity' # complexity \/ regType' # regType
             \/ regStrength' # regStrength) =>
            /\ UNCHANGED <<dataSeed, trainingData>>
            /\ ~dataCreated'
       /\ dataCreated' => (dataSeed' # dataSeed \/ noise' # noise)
      ]_vars

C9_Witness ==
    /\ dataSeed = MaxSeed
    /\ complexity # 10 /\ regType # "None" /\ regStrength > 0
    /\ ~dataCreated
    /\ trainingData = generateTrainingData(NumPoints, noise, dataSeed)

---------------------------------------------------------------------------
(* Properties of generateTrainingData (SpecGen) *)

Xs(data) == [k \in 1..Len(data) |-> data[k].x]
Ys(data) == [k \in 1..Len(data) |-> data[k].y]

\* -2 + 4*i/(n-1)
GridX(i, n) == Rnd(4 * i * Scale, n - 1) - 2 * Scale

\* Two completed calls with the same numPoints >= 2 that differ in seed or
\* in noiseLevel.
TwoCalls ==
    /\ prevGen.pc = "done" /\ gen.pc = "done"
    /\ gen.numPoints = prevGen.numPoints /\ gen.numPoints >= 2
    /\ (gen.seed # prevGen.seed \/ gen.noiseLevel # prevGen.noiseLevel)

SameGrid ==
    /\ Len(gen.data) = gen.numPoints
    /\ Len(prevGen.data) = gen.numPoints
    /\ Xs(gen.data) = Xs(prevGen.data)
    /\ \A k \in 1..gen.numPoints : gen.data[k].x = GridX(k - 1, gen.numPoints)
    /\ gen.data[1].x = Num(0 - 2)
    /\ gen.data[gen.numPoints].x = Num(2)

\* C4 as stated: two such calls return sets of length numPoints with the same
\* x-coordinates -2 + 4*i/(numPoints-1), first -2 and last 2, and different
\* y-values.
C4_DifferentY ==
    TwoCalls => (SameGrid /\ Ys(gen.data) # Ys(prevGen.data))

\* C4 amended: the same length and x-coordinates; the y-values differ when
\* at least one of the two noise levels is positive, and are the same, the
\* ground truth at each x, when both noise levels are 0.
C4_SameGridNoiseDecidesY ==
    TwoCalls =>
        /\ SameGrid
        /\ (gen.noiseLevel > 0 \/ prevGen.noiseLevel > 0) =>
              Ys(gen.data) # Ys(prevGen.data)
        /\ (gen.noiseLevel = 0 /\ prevGen.noiseLevel = 0) =>
              /\ Ys(gen.data) = Ys(prevGen.data)
              /\ \A k \in 1..gen.numPoints :
                    gen.data[k].y = trueFunction(gen.data[k].x)

C4_Witness ==
    /\ TwoCalls
    /\ gen.seed # prevGen.seed
    /\ gen.noiseLevel = 0 /\ prevGen.noiseLevel = 0
    /\ gen.data = prevGen.data

\* frac(sin(j) * 10000)
FracSin(j) == SinTimes10000(j) % Scale

\* (r - 0.5) * noiseLevel * 2
NoiseTerm(r, nl) == Rnd(Rnd((r - Scale \div 2) * nl, Scale) * 2 * Scale, Scale)

\* C10 as stated: the k-th sample drawn from a generator started at seed s is
\* frac(sin(s + k) * 10000), and training point i (0-based) takes its noise
\* from sin(s + i + 1).
C10_SeedAdvancedFirst ==
    \A k \in 1..Len(gen.samples) :
        /\ gen.samples[k] = FracSin(gen.seed + k)
        /\ gen.data[k].y = Add(trueFunction(gen.data[k].x),
                               NoiseTerm(FracSin(gen.seed + k), gen.noiseLevel))

\* C10 amended: the generator uses the seed and then advances it by 1: the
\* k-th sample is frac(sin(s + k - 1) * 10000), the seed after k samples is
\* s + k, and training point i (0-based) takes its noise from sin(s + i).
C10_SeedUsedThenAdvanced ==
    /\ gen.currentSeed = gen.seed + Len(gen.samples)
    /\ Len(gen.data) = Len(gen.samples)
    /\ \A k \in 1..Len(gen.samples) :
          /\ gen.samples[k] = FracSin(gen.seed + k - 1)
          /\ gen.data[k].y =
                Add(trueFunction(gen.data[k].x),
                    NoiseTerm(FracSin(gen.seed + k - 1), gen.noiseLevel))

C10_Witness ==
    /\ gen.pc = "done"
    /\ gen.seed > 0 /\ gen.noiseLevel > 0
    /\ Len(gen.samples) >= 3
    /\ gen.samples[3] = FracSin(gen.seed + 2)
    /\ gen.samples[3] # FracSin(gen.seed + 3)

---------------------------------------------------------------------------
(* Properties of calculateModelFunction and getLineData on any input *)

\* n * sumX2 - sumX * sumX of a training set
Denominator(data) ==
    LET s == Sums(data, Len(data))
    IN  Sub(Mul(Num(Len(data)), s.sumX2), Mul(s.sumX, s.sumX))

ProbeXs == {Num(0 - 2), Num(0 - 1), 0, Num(1), Num(2)}

\* C5: division by zero is guarded: a training set generated with
\* numPoints = 1 holds no NaN or Infinity coordinate, and a least-squares fit
\* whose denominator n*sum(x^2) - (sum x)^2 is 0 returns a function with
\* finite values.
C5_DivisionGuarded ==
    fitCall.pc = "done" =>
        /\ (fitCall.source = "generated" /\ fitCall.numPoints = 1) =>
              \A k \in 1..Len(fitCall.data) :
                  IsFinite(fitCall.data[k].x) /\ IsFinite(fitCall.data[k].y)
        /\ (fitCall.complexity <= 1 /\ Denominator(fitCall.data) = 0) =>
              \A x \in ProbeXs : IsFinite(Apply(fitCall.model, x))

\* C6: getLineData returns steps + 1 points with strictly increasing x, the
\* first x equal to lo, the last x equal to hi, and y = model(x) at each.
C6_LineSpansDomain ==
    lineCall.pc = "done" =>
        LET r == lineCall.result
        IN  /\ Len(r) = lineCall.steps + 1
            /\ \A k \in 1..(Len(r) - 1) : r[k].x < r[k + 1].x
            /\ r[1].x = lineCall.domain[1]
            /\ r[Len(r)].x = lineCall.domain[2]
            /\ \A k \in 1..Len(r) : r[k].y = Apply(lineCall.model, r[k].x)

\* The same call of fitModel with regKind = none.
FitWithNone ==
    calculateModelFunction(fitCall.data, fitCall.complexity, "None",
                           fitCall.regStrength, fitCall.noise)

\* The x of the chart's sampled points.
ChartXs == {p.x : p \in {getLineData(trueFunctionRef, ChartDomain, LineSteps)[k] :
                            k \in 1..(LineSteps + 1)}}

\* C1: for complexity > 1, a fit with regStrength = 0 and regKind l1 or l2 is
\* the fit with regKind = none and the same other arguments: the same
\* description and the same value at every x.
C1_ZeroStrengthIsNone ==
    (/\ fitCall.pc = "done" /\ fitCall.complexity > 1
     /\ fitCall.regStrength = 0 /\ fitCall.regType \in {"L1", "L2"}) =>
        /\ fitCall.description = FitWithNone.description
        /\ \A x \in ChartXs :
              Apply(fitCall.model, x) = Apply(FitWithNone.model, x)

\* The part of C1 about the function alone.
C1_SameFunction ==
    (/\ fitCall.pc = "done" /\ fitCall.complexity > 1
     /\ fitCall.regStrength = 0 /\ fitCall.regType \in {"L1", "L2"}) =>
        \A x \in ChartXs :
            Apply(fitCall.model, x) = Apply(FitWithNone.model, x)

=============================================================================
